---- MODULE Spec2Model ----
(***************************************************************************)
(* Model of the augmentation engine (rl4co/data/transforms.py) and of the  *)
(* POMO policy orchestrator (ncobench/models/co/pomo/policy.py).           *)
(*                                                                         *)
(* Tensors of coordinates are sequences of rows (the batch axis), each row *)
(* a sequence of nodes, each node a pair <<x, y>>.  Real numbers are exact *)
(* rationals <<n, d>> in lowest terms with d > 0; 0/0 is NaN.  Floating    *)
(* point rounding is not modelled: arithmetic is exact.                    *)
(***************************************************************************)
EXTENDS Integers, Sequences, FiniteSets, TLC

VARIABLES
    aug,      \* the StateAugmentation object, or None
    err,      \* the exception the last operation raised, or "none"
    op,       \* the last operation performed
    td,       \* td["locs"] / xy handed to the last operation
    rand,     \* the angles phi used by the last operation (one per row)
    off,      \* the offset handed to symmetric_transform
    out,      \* the tensor the last operation returned, or None
    sel,      \* the image index k chosen by the last re-application
    out2,     \* the tensor returned by the re-application
    args,     \* the arguments of the last constructor / forward call
    calls,    \* the collaborator calls made by the last forward, in order
    ret       \* the dictionary the last forward returned, or None

vars == <<aug, err, op, args, td, rand, off, out, sel, out2, calls, ret>>

\* Python's None, where an object is expected.
None == [cls |-> "NoneType"]

\* No tensor.
NoTensor == <<>>

(***************************************************************************)
(* Bounds of the model.                                                    *)
(***************************************************************************)
MaxBatch == 2      \* instances per batch
MaxGraph == 2      \* nodes per instance
MaxCells == 4      \* nodes per batch
MaxAug   == 2      \* largest num_augment tried besides 8
MaxDraws == 4      \* largest number of rows whose angle is drawn at random
MaxSteps == 2      \* decode steps of a rollout

(***************************************************************************)
(* Exact rational arithmetic.                                              *)
(***************************************************************************)
Abs(n) == IF n < 0 THEN -n ELSE n

RECURSIVE Gcd(_, _)
Gcd(a, b) == IF b = 0 THEN a ELSE Gcd(b, a % b)

NaN == <<0, 0>>

IsNaN(a) == a = NaN

Rat(n, d) ==
    IF d = 0 THEN (IF n = 0 THEN NaN ELSE IF n > 0 THEN <<1, 0>> ELSE <<-1, 0>>)
    ELSE LET s == IF d < 0 THEN -1 ELSE 1
             g == Gcd(Abs(n), Abs(d))
         IN  <<(s * n) \div g, (s * d) \div g>>

Zero == Rat(0, 1)
One  == Rat(1, 1)

RAdd(a, b) == Rat(a[1] * b[2] + b[1] * a[2], a[2] * b[2])
RSub(a, b) == Rat(a[1] * b[2] - b[1] * a[2], a[2] * b[2])
RMul(a, b) == Rat(a[1] * b[1], a[2] * b[2])
RDiv(a, b) == Rat(a[1] * b[2], a[2] * b[1])
RLeq(a, b) == a[1] * b[2] <= b[1] * a[2]

(***************************************************************************)
(* Tensor helpers.                                                         *)
(***************************************************************************)
Rows(xy)  == Len(xy)
Nodes(xy) == IF Len(xy) = 0 THEN 0 ELSE Len(xy[1])

\* torch.cat((a, b), dim=0)
Cat0(a, b) == a \o b

\* The entries of a tensor, as a set of numbers.
Entries(xy) == {xy[i][g][c] : i \in 1..Rows(xy), g \in 1..Nodes(xy), c \in 1..2}

(***************************************************************************)
(* dihedral_8_augmentation and its wrapper.                                *)
(***************************************************************************)
\* z0 .. z7 applied to one node (ImageSignSlip: z2 written with y - 1).
ImageSignSlip(k, p) ==
    LET x == p[1]
        y == p[2]
    IN  CASE k = 0 -> <<x, y>>
          [] k = 1 -> <<RSub(One, x), y>>
          [] k = 2 -> <<x, RSub(y, One)>>
          [] k = 3 -> <<RSub(One, x), RSub(One, y)>>
          [] k = 4 -> <<y, x>>
          [] k = 5 -> <<RSub(One, y), x>>
          [] k = 6 -> <<y, RSub(One, x)>>
          [] k = 7 -> <<RSub(One, y), RSub(One, x)>>

Image(k, p) ==
    LET x == p[1]
        y == p[2]
    IN  CASE k = 0 -> <<x, y>>
          [] k = 1 -> <<RSub(One, x), y>>
          [] k = 2 -> <<x, RSub(One, y)>>
          [] k = 3 -> <<RSub(One, x), RSub(One, y)>>
          [] k = 4 -> <<y, x>>
          [] k = 5 -> <<RSub(One, y), x>>
          [] k = 6 -> <<y, RSub(One, x)>>
          [] k = 7 -> <<RSub(One, y), RSub(One, x)>>

\* z_k: the k-th image of the whole batch.
Z(k, xy) == [i \in 1..Rows(xy) |-> [g \in 1..Nodes(xy) |-> Image(k, xy[i][g])]]

dihedral_8_augmentation(xy) ==
    Cat0(Z(0, xy), Cat0(Z(1, xy), Cat0(Z(2, xy), Cat0(Z(3, xy),
    Cat0(Z(4, xy), Cat0(Z(5, xy), Cat0(Z(6, xy), Z(7, xy))))))))

dihedral_8_augmentation_wrapper(xy, reduce) ==
    dihedral_8_augmentation(
        IF reduce THEN SubSeq(xy, 1, Rows(xy) \div 8) ELSE xy)

\* Rows k*B .. k*B+B-1 (0-based) of a tensor made of copies of B rows.
Slot(t, k, B) == SubSeq(t, k * B + 1, k * B + B)

(***************************************************************************)
(* symmetric_transform and symmetric_augmentation.                         *)
(*                                                                         *)
(* An angle phi in [0, 4*pi) is a pair <<w, t>>: phi = theta(t) + 2*pi*w   *)
(* with w in {0, 1} and theta(0) = 0, theta(1) = atan(3/4),                *)
(* theta(2) = pi/2, so cos and sin are rational.                           *)
(***************************************************************************)
Thetas == 0..2
Angles == {0, 1} \X Thetas
ZeroAngle == <<0, 0>>
TwoPi     == <<1, 0>>

Cos(phi) == CASE phi[2] = 0 -> Rat(1, 1)
              [] phi[2] = 1 -> Rat(4, 5)
              [] phi[2] = 2 -> Rat(0, 1)

Sin(phi) == CASE phi[2] = 0 -> Rat(0, 1)
              [] phi[2] = 1 -> Rat(3, 5)
              [] phi[2] = 2 -> Rat(1, 1)

\* mask = phi > 2 * math.pi   (ReflectMaskGe: written with >=)
ReflectMaskGe(phi) == phi[1] = 1

ReflectMask(phi) == phi[1] = 1 /\ phi[2] # 0

\* offset: float = 0.5
DefaultOffset == Rat(1, 2)

\* x_prime = cos(phi) * x - sin(phi) * y
XPrime(x, y, phi) == RSub(RMul(Cos(phi), x), RMul(Sin(phi), y))

\* y_prime = sin(phi) * x + cos(phi) * y   (YPrimeSlip: sin written twice)
YPrimeSlip(x, y, phi) == RAdd(RMul(Sin(phi), x), RMul(Sin(phi), y))

YPrime(x, y, phi) == RAdd(RMul(Sin(phi), x), RMul(Cos(phi), y))

\* x, y: [batch][graph] coordinates; phi: [batch] angles.
symmetric_transform(x, y, phi, offset) ==
    [i \in 1..Len(x) |-> [g \in 1..Len(x[i]) |->
        LET xs == RSub(x[i][g], offset)
            ys == RSub(y[i][g], offset)
            xp == XPrime(xs, ys, phi[i])
            yp == YPrime(xs, ys, phi[i])
            xy == IF ReflectMask(phi[i]) THEN <<yp, xp>> ELSE <<xp, yp>>
        IN  <<RAdd(xy[1], offset), RAdd(xy[2], offset)>>]]

\* xy[..., [0]] and xy[..., [1]]
Coord(xy, c) == [i \in 1..Rows(xy) |-> [g \in 1..Nodes(xy) |-> xy[i][g][c]]]

\* phi after `phi[: xy.shape[0] // num_augment] = 0.0`; u holds the angles
\* torch.rand(...) * 4 * math.pi drew, one per row.
Phi(rows, num_augment, first_augment, u) ==
    [i \in 1..rows |->
        IF ~first_augment /\ i <= rows \div num_augment
        THEN ZeroAngle ELSE u[i]]

symmetric_augmentation(xy, num_augment, first_augment, u) ==
    symmetric_transform(Coord(xy, 1), Coord(xy, 2),
                        Phi(Rows(xy), num_augment, first_augment, u),
                        DefaultOffset)

(***************************************************************************)
(* min_max_normalize.                                                      *)
(***************************************************************************)
\* x.min() and x.max() over a set of numbers.
TMin(S) == CHOOSE v \in S : \A w \in S : RLeq(v, w)
TMax(S) == CHOOSE v \in S : \A w \in S : RLeq(w, v)

min_max_normalize(xy) ==
    LET e   == Entries(xy)
        mn  == TMin(e)
        rng == RSub(TMax(e), mn)
    IN  [i \in 1..Rows(xy) |-> [g \in 1..Nodes(xy) |->
            <<RDiv(RSub(xy[i][g][1], mn), rng),
              RDiv(RSub(xy[i][g][2], mn), rng)>>]]

(***************************************************************************)
(* Inputs.                                                                 *)
(***************************************************************************)
\* Node coordinates tried: the centre of the unit square and a point that no
\* symmetry of the square fixes.
Centre  == <<Rat(1, 2), Rat(1, 2)>>
Generic == <<Rat(1, 5), Rat(7, 10)>>
Points  == {Centre, Generic}

\* Coordinate batches [batch, graph, 2] over a set of points.
BatchesOver(P) ==
    UNION {[1..bg[1] -> [1..bg[2] -> P]] :
              bg \in {s \in (1..MaxBatch) \X (1..MaxGraph) :
                         s[1] * s[2] <= MaxCells}}

Batches == BatchesOver(Points)

\* Values of the num_augment argument.
NumAugments == (1..MaxAug) \cup {4, 8}

\* Values of the augment_fn argument: names, and one caller-supplied callable.
AugmentFns ==
    {[kind |-> "str", name |-> n] :
        n \in {"dihedral8", "symmetric", "unknown", "Dihedral8"}}
    \cup {[kind |-> "callable", name |-> "custom_augment"]}

\* The caller-supplied callable: mirrors every row in the line x = 1/2.
custom_augment(xy, num_augment) == Z(1, xy)

(***************************************************************************)
(* batchify (rl4co.utils.ops): repeats the batch `n` times along axis 0.   *)
(***************************************************************************)
batchify(x, n) ==
    [i \in 1..(Len(x) * n) |-> x[((i - 1) % Len(x)) + 1]]

(***************************************************************************)
(* get_augment_function and StateAugmentation.                             *)
(***************************************************************************)
\* (get_augment_function_lenient: unknown names fall back to 'symmetric')
get_augment_function_lenient(augment_fn) ==
    IF augment_fn.kind = "callable" THEN augment_fn.name
    ELSE IF augment_fn.name = "dihedral8" THEN "dihedral_8_augmentation_wrapper"
    ELSE "symmetric_augmentation"

get_augment_function(augment_fn) ==
    IF augment_fn.kind = "callable" THEN augment_fn.name
    ELSE IF augment_fn.name = "dihedral8" THEN "dihedral_8_augmentation_wrapper"
    ELSE IF augment_fn.name = "symmetric" THEN "symmetric_augmentation"
    ELSE "ValueError"

\* StateAugmentation.__init__
Construct(num_augment, augment_fn, first_aug_identity, normalize) ==
    /\ aug = None
    /\ LET f == get_augment_function(augment_fn)
       IN  IF f = "ValueError"
           THEN /\ err' = "ValueError"
                /\ aug' = None
           ELSE IF f = "dihedral_8_augmentation_wrapper" /\ num_augment # 8
           THEN /\ err' = "AssertionError"
                /\ aug' = None
           ELSE /\ err' = "none"
                /\ aug' = [cls                |-> "StateAugmentation",
                           augmentation       |-> f,
                           feats              |-> <<"locs">>,
                           num_augment        |-> num_augment,
                           normalize          |-> normalize,
                           first_aug_identity |-> first_aug_identity]
    /\ op' = "construct"
    /\ args' = [cls                |-> "StateAugmentation.__init__",
                num_augment        |-> num_augment,
                augment_fn         |-> augment_fn,
                first_aug_identity |-> first_aug_identity,
                normalize          |-> normalize]
    /\ td' = <<>>
    /\ rand' = <<>>
    /\ out' = NoTensor
    /\ UNCHANGED <<off, sel, out2, calls, ret>>

\* self.augmentation(td_aug[feat], self.num_augment)
Augmentation(f, xy, num_augment, u) ==
    CASE f = "dihedral_8_augmentation_wrapper" ->
             dihedral_8_augmentation_wrapper(xy, num_augment # 0)
      [] f = "symmetric_augmentation" ->
             symmetric_augmentation(xy, num_augment, FALSE, u)
      [] f = "custom_augment" -> custom_augment(xy, num_augment)

\* The 1-based row that the index [*td.size(), 0] selects: td.size() is
\* (B,), so the index is [B, 0], the 0-based row B.
IdentityRowZero(B) == 1

IdentityRow(B) == B + 1

\* The angles drawn for `rows` rows of a batch of B instances; none when
\* the function draws none.  The draws of rows 1..B are overwritten with 0
\* before they are used (first_augment is never passed), so only the
\* others are enumerated.
Draws(f, rows, B) ==
    IF f # "symmetric_augmentation" THEN {<<>>}
    ELSE IF rows > MaxDraws THEN {}
    ELSE {[i \in 1..rows |-> IF i <= B THEN ZeroAngle ELSE v[i]] :
             v \in [(B + 1)..rows -> Angles]}

\* StateAugmentation.__call__ on td with td["locs"] = locs.
Call(locs, u) ==
    /\ aug # None
    /\ op \in {"construct", "discard"}
    /\ LET B      == Len(locs)
           td_aug == batchify(locs, aug.num_augment)
           r      == IdentityRow(B)
       IN  IF r > Rows(td_aug)
           THEN /\ err' = "IndexError"
                /\ out' = NoTensor
           ELSE LET init_aug_feat == td_aug[r][1]
                    a  == Augmentation(aug.augmentation, td_aug,
                                       aug.num_augment, u)
                    n  == IF aug.normalize THEN min_max_normalize(a) ELSE a
                    f  == IF aug.first_aug_identity
                          THEN [n EXCEPT ![r][1] = init_aug_feat]
                          ELSE n
                IN  /\ err' = "none"
                    /\ out' = f
    /\ op' = "call"
    /\ td' = locs
    /\ rand' = u
    /\ UNCHANGED <<aug, args, off, sel, out2, calls, ret>>

\* The caller drops the augmented batch after use.
Discard ==
    /\ op = "call"
    /\ op' = "discard"
    /\ err' = "none"
    /\ td' = <<>>
    /\ rand' = <<>>
    /\ out' = NoTensor
    /\ UNCHANGED <<aug, args, off, sel, out2, calls, ret>>

Init ==
    /\ aug = None
    /\ err = "none"
    /\ op = "init"
    /\ args = None
    /\ td = <<>>
    /\ rand = <<>>
    /\ off = DefaultOffset
    /\ out = NoTensor
    /\ sel = 0
    /\ out2 = NoTensor
    /\ calls = <<>>
    /\ ret = None

Next ==
    \/ /\ aug = None
       /\ \E n \in NumAugments, f \in AugmentFns, i \in BOOLEAN, z \in BOOLEAN :
              Construct(n, f, i, z)
    \/ /\ aug # None
       /\ op \in {"construct", "discard"}
       /\ \E locs \in Batches :
              \E u \in Draws(aug.augmentation, Len(locs) * aug.num_augment,
                             Len(locs)) :
                  Call(locs, u)
    \/ Discard

Spec == Init /\ [][Next]_vars

(***************************************************************************)
(* The pure functions on their own: dihedral_8_augmentation applied to a   *)
(* batch and again to one of its 8 images; symmetric_transform applied     *)
(* with arbitrary angles and offsets.                                      *)
(***************************************************************************)
Offsets == {DefaultOffset, Rat(0, 1), Rat(1, 5)}

InitPure ==
    /\ aug = None
    /\ err = "none"
    /\ op = "init"
    /\ args = None
    /\ td \in Batches
    /\ rand = <<>>
    /\ off = DefaultOffset
    /\ out = NoTensor
    /\ sel = 0
    /\ out2 = NoTensor
    /\ calls = <<>>
    /\ ret = None

\* out = dihedral_8_augmentation(xy)
ApplyD8 ==
    /\ op = "init"
    /\ op' = "d8"
    /\ out' = dihedral_8_augmentation(td)
    /\ UNCHANGED <<aug, err, args, td, rand, off, sel, out2, calls, ret>>

\* out2 = dihedral_8_augmentation(k-th image of out)
ReapplyD8(k) ==
    /\ op = "d8"
    /\ op' = "d8again"
    /\ sel' = k
    /\ out2' = dihedral_8_augmentation(Slot(out, k, Len(td)))
    /\ UNCHANGED <<aug, err, args, td, rand, off, out, calls, ret>>

NextD8 ==
    \/ ApplyD8
    \/ \E k \in 0..7 : ReapplyD8(k)

SpecD8 == InitPure /\ [][NextD8]_vars

\* out = symmetric_transform(x, y, phi, offset)
SymTransform(phi, offset) ==
    /\ op = "init"
    /\ op' = "sym"
    /\ rand' = phi
    /\ off' = offset
    /\ out' = symmetric_transform(Coord(td, 1), Coord(td, 2), phi, offset)
    /\ UNCHANGED <<aug, err, args, td, sel, out2, calls, ret>>

NextSym ==
    /\ op = "init"
    /\ \E phi \in [1..Len(td) -> Angles], offset \in Offsets :
           SymTransform(phi, offset)

SpecSym == InitPure /\ [][NextSym]_vars

(***************************************************************************)
(* POMOPolicy.forward.                                                     *)
(*                                                                         *)
(* The embedding adapter and the encoder are pure functions of their       *)
(* argument; the decoder samples, so its result is any rollout of one      *)
(* trajectory.  A log-probability is <<0, v>> (the finite value v) or      *)
(* <<1, 0>> (minus infinity).  An optional value is <<>> (None) or <<v>>.  *)
(***************************************************************************)
NegInf == <<1, 0>>
Fin(v) == <<0, v>>
LAdd(a, b) == IF a[1] = 1 \/ b[1] = 1 THEN NegInf ELSE Fin(a[2] + b[2])

Absent  == <<>>
Some(v) == <<v>>

NodeIds == {1, 2}

\* The log-probability tables tried for a rollout of n steps: an entry of
\* step t is minus infinity or -2^(t-1), so that a sum tells which steps
\* it is made of.
LogPTables(n) ==
    {[t \in 1..n |-> [k \in NodeIds |->
         IF b[t][k] THEN NegInf ELSE Fin(-(2 ^ (t - 1)))]] :
        b \in [1..n -> [NodeIds -> BOOLEAN]]}

Instances == {"td_a", "td_b"}
Phases    == {"train", "test"}
DecodeTypes == {"sampling", "greedy"}
Rewards   == {-3, -5}

\* self.init_embedding(td)
init_embedding(t) == <<"embedding", t>>

\* self.encoder(embedding): (representations, auxiliary output)
encoder(e) == <<<<"encoded", e>>, <<"aux", e>>>>

\* What self.decoder(...) may return: (_log_p, actions, td), td holding the
\* reward and, possibly, the mask of padding steps.
DecoderResults ==
    UNION {
        {<<lp, ac, t>> :
            lp \in LogPTables(n),
            ac \in [1..n -> NodeIds],
            t  \in {[reward |-> r] : r \in Rewards}
                   \cup {[reward |-> r, mask |-> m] :
                            r \in Rewards, m \in [1..n -> BOOLEAN]}} :
        n \in 1..MaxSteps}

\* td.get(key, None)
TdGet(t, key) == IF key \in DOMAIN t THEN Some(t[key]) ELSE Absent

\* get_log_likelihood (ncobench.models.co.am.utils): gathers the
\* log-probability of the chosen action of every step, zeroes the steps
\* the mask marks, and sums over the steps.
RECURSIVE SumSteps(_, _)
SumSteps(lp, n) == IF n = 0 THEN Fin(0) ELSE LAdd(SumSteps(lp, n - 1), lp[n])

get_log_likelihood(log_p, actions, mask) ==
    LET gathered == [t \in 1..Len(log_p) |-> log_p[t][actions[t]]]
        zeroed   == IF mask = Absent THEN gathered
                    ELSE [t \in 1..Len(log_p) |->
                             IF mask[1][t] THEN Fin(0) ELSE gathered[t]]
    IN  SumSteps(zeroed, Len(log_p))

\* The arguments of self.decoder(td, encoded_inputs, decode_type)
\* (DecoderArgsByPhase: the phase overrides the decode type).
DecoderArgsByPhase(t, encoded_inputs, decode_type, phase) ==
    <<t, encoded_inputs, IF phase = "train" THEN decode_type ELSE "greedy">>

DecoderArgs(t, encoded_inputs, decode_type, phase) ==
    <<t, encoded_inputs, decode_type>>

\* The mask handed to get_log_likelihood: td.get('mask', None), td being
\* the state the decoder returned (LikelihoodMaskDropped: no mask passed).
LikelihoodMaskDropped(td2) == Absent

LikelihoodMask(td2) == TdGet(td2, "mask")

\* POMOPolicy.forward(td, phase, decode_type, return_actions); `result` is
\* what the decoder returns during the call.
Forward(t, phase, decode_type, return_actions, result) ==
    /\ op = "init"
    /\ LET embedding      == init_embedding(t)
           encoded        == encoder(embedding)
           encoded_inputs == encoded[1]
           dargs          == DecoderArgs(t, encoded_inputs, decode_type, phase)
           log_p          == result[1]
           actions        == result[2]
           td2            == result[3]
           largs          == <<log_p, actions, LikelihoodMask(td2)>>
           ll             == get_log_likelihood(largs[1], largs[2], largs[3])
       IN  /\ calls' = <<[fn |-> "init_embedding", args |-> <<t>>,
                          ret |-> embedding],
                         [fn |-> "encoder", args |-> <<embedding>>,
                          ret |-> encoded],
                         [fn |-> "decoder", args |-> dargs, ret |-> result],
                         [fn |-> "get_log_likelihood", args |-> largs,
                          ret |-> ll]>>
           /\ ret' = [reward         |-> td2["reward"],
                      log_likelihood |-> ll,
                      actions        |-> IF return_actions THEN Some(actions)
                                         ELSE Absent]
    /\ op' = "forward"
    /\ args' = [cls            |-> "POMOPolicy.forward",
                td             |-> t,
                phase          |-> phase,
                decode_type    |-> decode_type,
                return_actions |-> return_actions]
    /\ UNCHANGED <<aug, err, td, rand, off, out, sel, out2>>

\* The caller drops the returned dictionary; the policy is as before the
\* call.
Drop ==
    /\ op = "forward"
    /\ op' = "init"
    /\ args' = None
    /\ calls' = <<>>
    /\ ret' = None
    /\ UNCHANGED <<aug, err, td, rand, off, out, sel, out2>>

NextPolicy ==
    \/ /\ op = "init"
       /\ \E t \in Instances, phase \in Phases, d \in DecodeTypes,
             r \in BOOLEAN, result \in DecoderResults :
              Forward(t, phase, d, r, result)
    \/ Drop

SpecPolicy == Init /\ [][NextPolicy]_vars

(***************************************************************************)
(* Properties of the augmentation engine.                                  *)
(***************************************************************************)
\* Squared Euclidean distance between two nodes.
Dist2(p, q) ==
    RAdd(RMul(RSub(p[1], q[1]), RSub(p[1], q[1])),
         RMul(RSub(p[2], q[2]), RSub(p[2], q[2])))

\* What the augmentation function, followed by normalisation when enabled,
\* produces for the last call.
Produced ==
    LET a == Augmentation(aug.augmentation, batchify(td, aug.num_augment),
                          aug.num_augment, rand)
    IN  IF aug.normalize THEN min_max_normalize(a) ELSE a

Called == op = "call" /\ err = "none"

\* C1: after a call with first_aug_identity=True the call has raised no
\* error and replica 0 (rows 0..B-1) of the returned feature holds exactly
\* the original input values.
C1_IdentityPreserved ==
    (op = "call" /\ aug.first_aug_identity)
        => (err = "none" /\ Slot(out, 0, Len(td)) = td)

\* C2 (as claimed): the k-th image of dihedral_8_augmentation(xy), mapped
\* again by the k-th map, is xy, for every k in 0..7.
C2_SelfInverse ==
    op = "d8again" => Slot(out2, sel, Len(td)) = td

\* The inverse of the k-th map: maps 5 and 6 (the quarter turns) are each
\* other's inverse, the other six maps are their own.
InverseMap(k) == CASE k = 5 -> 6 [] k = 6 -> 5 [] OTHER -> k

\* C2 (amended): the k-th image of dihedral_8_augmentation(xy), mapped again
\* by the inverse of the k-th map (the k-th map itself except that maps 5
\* and 6 invert each other), is xy.
C2_InverseClosure ==
    op = "d8again" => Slot(out2, InverseMap(sel), Len(td)) = td

W_C2 ==
    /\ op = "d8again"
    /\ sel = 5
    /\ Len(td) = MaxBatch
    /\ td[1][1] = Generic

\* C3: a construction with 'dihedral8' and num_augment other than 8, or
\* with a name other than 'dihedral8' and 'symmetric', raises and leaves no
\* augmenter; with 'dihedral8' and 8, or 'symmetric' and any num_augment, it
\* succeeds and yields an augmenter with the requested settings.
C3_ConfigurationRejection ==
    (op = "construct" /\ args.augment_fn.kind = "str") =>
        LET name == args.augment_fn.name
            bad  == \/ name \notin {"dihedral8", "symmetric"}
                    \/ name = "dihedral8" /\ args.num_augment # 8
        IN  IF bad
            THEN err \in {"ValueError", "AssertionError"} /\ aug = None
            ELSE /\ err = "none"
                 /\ aug # None
                 /\ aug.num_augment = args.num_augment
                 /\ aug.augmentation =
                        (IF name = "dihedral8"
                         THEN "dihedral_8_augmentation_wrapper"
                         ELSE "symmetric_augmentation")

W_C3 ==
    /\ op = "construct"
    /\ args.augment_fn = [kind |-> "str", name |-> "unknown"]
    /\ err = "ValueError"
    /\ aug = None

\* C4: a call of a 'dihedral8' augmenter on B instances returns 8*B rows,
\* row k*B+b being the k-th image of instance b in the order (x,y),
\* (1-x,y), (x,1-y), (1-x,1-y), (y,x), (1-y,x), (y,1-x), (1-y,1-x).
C4_DihedralOrder ==
    (op = "call" /\ aug.augmentation = "dihedral_8_augmentation_wrapper") =>
        /\ err = "none"
        /\ Rows(out) = 8 * Len(td)
        /\ \A k \in 0..7, b \in 1..Len(td), g \in 1..Nodes(td) :
               LET x == td[b][g][1]
                   y == td[b][g][2]
                   u == RSub(One, x)
                   v == RSub(One, y)
               IN  out[k * Len(td) + b][g] =
                       <<<<x, y>>, <<u, y>>, <<x, v>>, <<u, v>>,
                         <<y, x>>, <<v, x>>, <<y, u>>, <<v, u>>>>[k + 1]

\* C5: symmetric_transform preserves the distance between every two nodes
\* of an instance, for every angle and offset.
C5_DistancePreserved ==
    op = "sym" =>
        \A i \in 1..Rows(td), g \in 1..Nodes(td), h \in 1..Nodes(td) :
            Dist2(out[i][g], out[i][h]) = Dist2(td[i][g], td[i][h])

W_C5 ==
    /\ op = "sym"
    /\ Nodes(td) >= 2
    /\ td[1][1] # td[1][2]
    /\ rand[1] = <<1, 1>>
    /\ off # DefaultOffset

\* The rotation of node p by phi about the point (o, o).
RotateAbout(p, phi, o) ==
    LET dx == RSub(p[1], o)
        dy == RSub(p[2], o)
    IN  <<RAdd(o, RSub(RMul(Cos(phi), dx), RMul(Sin(phi), dy))),
          RAdd(o, RAdd(RMul(Sin(phi), dx), RMul(Cos(phi), dy)))>>

SwapAxes(p) == <<p[2], p[1]>>

\* C6 (as claimed): symmetric_transform is the rotation by phi about the
\* offset point for phi in [0, 2*pi), and that rotation followed by the
\* swap of the axes for phi in [2*pi, 4*pi), 2*pi included.
C6_SplitAtTwoPiInclusive ==
    op = "sym" =>
        \A i \in 1..Rows(td), g \in 1..Nodes(td) :
            out[i][g] = IF rand[i][1] = 1
                        THEN SwapAxes(RotateAbout(td[i][g], rand[i], off))
                        ELSE RotateAbout(td[i][g], rand[i], off)

\* C6 (amended): symmetric_transform is the rotation by phi about the
\* offset point for phi in [0, 2*pi], 2*pi included, and that rotation
\* followed by the swap of the axes for phi in (2*pi, 4*pi).
C6_SplitAboveTwoPi ==
    op = "sym" =>
        \A i \in 1..Rows(td), g \in 1..Nodes(td) :
            out[i][g] = IF rand[i][1] = 1 /\ rand[i] # TwoPi
                        THEN SwapAxes(RotateAbout(td[i][g], rand[i], off))
                        ELSE RotateAbout(td[i][g], rand[i], off)

W_C6 ==
    /\ op = "sym"
    /\ td[1][1] = Generic
    /\ rand[1] = TwoPi
    /\ out[1][1] = Generic

\* C8: with normalize enabled a call returns a feature without NaN.
C8_NoNaN ==
    (Called /\ aug.normalize) => \A v \in Entries(out) : ~IsNaN(v)

\* C9: with first_aug_identity=True every entry of replicas 1..num_augment-1
\* (rows B and up) is the value the augmentation, followed by normalisation
\* when enabled, produced.
C9_ReplicaZeroOnly ==
    (Called /\ aug.first_aug_identity) =>
        \A i \in (Len(td) + 1)..Rows(out) : out[i] = Produced[i]

(***************************************************************************)
(* Properties of the policy orchestrator.                                  *)
(***************************************************************************)
\* The decoder's result during the last forward.
Rollout == calls[3].ret

\* The steps of the last rollout that its mask does not mark as padding.
ValidSteps ==
    {t \in 1..Len(Rollout[1]) :
        "mask" \in DOMAIN Rollout[3] => ~Rollout[3].mask[t]}

RECURSIVE SumOver(_, _)
SumOver(f, S) ==
    IF S = {} THEN Fin(0)
    ELSE LET t == CHOOSE t \in S : TRUE
         IN  LAdd(f[t], SumOver(f, S \ {t}))

\* C7: the log_likelihood forward returns is the sum, over the steps the
\* returned state's mask does not mark as padding (all steps without a
\* mask), of the log-probability of the action chosen at that step.
C7_MaskedLogLikelihood ==
    op = "forward" =>
        ret.log_likelihood =
            SumOver([t \in 1..Len(Rollout[1]) |-> Rollout[1][t][Rollout[2][t]]],
                    ValidSteps)

W_C7 ==
    /\ op = "forward"
    /\ Len(Rollout[1]) = MaxSteps
    /\ "mask" \in DOMAIN Rollout[3]
    /\ Rollout[3].mask[MaxSteps]
    /\ ~Rollout[3].mask[1]
    /\ Rollout[1][MaxSteps][Rollout[2][MaxSteps]] = NegInf
    /\ ret.log_likelihood = Fin(-1)

\* C10: a forward calls the embedding adapter, the encoder, the decoder and
\* the aggregator once each in that order, each on the previous result
\* (reward and mask from the state the decoder returned), and neither the
\* calls nor the returned dictionary depend on the phase.
C10_PureComposition ==
    op = "forward" =>
        /\ [i \in 1..Len(calls) |-> calls[i].fn] =
               <<"init_embedding", "encoder", "decoder", "get_log_likelihood">>
        /\ calls[1].args = <<args.td>>
        /\ calls[2].args = <<calls[1].ret>>
        /\ calls[3].args = <<args.td, calls[2].ret[1], args.decode_type>>
        /\ calls[4].args = <<Rollout[1], Rollout[2], TdGet(Rollout[3], "mask")>>
        /\ ret = [reward         |-> Rollout[3].reward,
                  log_likelihood |-> calls[4].ret,
                  actions        |-> IF args.return_actions
                                     THEN Some(Rollout[2]) ELSE Absent]

W_C10 ==
    /\ op = "forward"
    /\ args.phase = "test"
    /\ args.decode_type = "sampling"
    /\ args.return_actions
    /\ "mask" \in DOMAIN Rollout[3]

====
